---- MODULE Spec2Model ----
(***************************************************************************)
(* Model of src/finder.py: finder() and fitting().                         *)
(*                                                                         *)
(* Arrays are TLA+ sequences; a Python index k is position k + 1.          *)
(* Floating-point values are modelled by a binary floating-point format    *)
(* with a MantBits-bit significand whose unit is one model step: every     *)
(* integer below 2^MantBits is representable, above that the spacing       *)
(* doubles with each binade, and every arithmetic result is rounded to the *)
(* nearest representable value, ties to even, as IEEE-754 does.            *)
(* q values are in units of 0.0025, so the tolerance 0.01 is 4 units.      *)
(***************************************************************************)
EXTENDS Integers, Sequences, FiniteSets, TLC

VARIABLES x, y, lo_lim, hi_lim, fitm, first_pass_peaks, second_pass_peaks,
          fitted_centre, true_peaks, i, j, calls, pc, mode, orig, prev

vars == <<x, y, lo_lim, hi_lim, fitm, first_pass_peaks, second_pass_peaks,
          fitted_centre, true_peaks, i, j, calls, pc, mode, orig, prev>>

\* ---------------------------------------------------------------- bounds
\* significand width of the modelled floating-point format
MantBits == 7
\* largest number of indices the coarse search returns
MaxPeaks == 2
\* longest input handed directly to the deduplication step
MaxLen == 3

\* ------------------------------------------------------ program constants
\* np.where(test<0.01): 0.01 in units of 0.0025
Tol == 4
\* range(3,10): first width, and the exclusive upper end
WidthLo == 3
WidthHi == 10

\* ------------------------------------------------------- float arithmetic
RECURSIVE Pow2(_)
Pow2(n) == IF n = 0 THEN 1 ELSE 2 * Pow2(n - 1)

\* spacing of representable values in the binade that holds n >= 0
RECURSIVE Ulp(_)
Ulp(n) == IF n < Pow2(MantBits) THEN 1 ELSE 2 * Ulp(n \div 2)

\* num/den >= 0 rounded to the nearest representable value, ties to even
RoundMag(num, den) ==
    LET u    == Ulp(num \div den)
        lowm == num \div (den * u)
        low  == lowm * u
        high == low + u
    IN  IF 2 * num < (low + high) * den THEN low
        ELSE IF 2 * num > (low + high) * den THEN high
        ELSE IF lowm % 2 = 0 THEN low ELSE high

RoundF(num, den) == IF num < 0 THEN 0 - RoundMag(0 - num, den) ELSE RoundMag(num, den)

FAdd(a, b) == RoundF(a + b, 1)
FSub(a, b) == RoundF(a - b, 1)
FDiv(a, n) == RoundF(a, n)
FAbs(a) == IF a < 0 THEN 0 - a ELSE a

\* ------------------------------------------------------------ numpy pieces
At(a, k) == a[k + 1]

\* a[s:e] with Python's treatment of negative and oversized bounds
SliceBound(k, n) == IF k < 0 THEN (IF k + n < 0 THEN 0 ELSE k + n)
                    ELSE (IF k > n THEN n ELSE k)
Slice(a, s, e) ==
    LET lo == SliceBound(s, Len(a))
        hi == SliceBound(e, Len(a))
    IN  IF lo < hi THEN SubSeq(a, lo + 1, hi) ELSE << >>

\* np.append(a, values): values is flattened and put at the end
np_append(a, values) == a \o values

\* np.trim_zeros(a, 'f')
RECURSIVE np_trim_zeros_f(_)
np_trim_zeros_f(a) ==
    IF a # << >> /\ Head(a) = 0 THEN np_trim_zeros_f(Tail(a)) ELSE a

\* res += a[k] for the positions from..to of a, in order
RECURSIVE SumFrom(_, _, _, _)
SumFrom(res, a, from, to) ==
    IF from > to THEN res ELSE SumFrom(FAdd(res, a[from]), a, from + 1, to)

\* lane k (0..7) of the 8-way unrolled block loop: a[k] + a[8+k] + ...
RECURSIVE Lane(_, _, _, _)
Lane(res, a, pos, full) ==
    IF pos > full THEN res ELSE Lane(FAdd(res, a[pos]), a, pos + 8, full)

\* np.add.reduce on a contiguous float array of at most 128 elements
np_sum(a) ==
    LET n == Len(a) IN
    IF n < 8 THEN SumFrom(0, a, 1, n)
    ELSE LET full == n - (n % 8)
             r(k) == Lane(a[k + 1], a, k + 9, full)
             res  == FAdd(FAdd(FAdd(r(0), r(1)), FAdd(r(2), r(3))),
                          FAdd(FAdd(r(4), r(5)), FAdd(r(6), r(7))))
         IN  SumFrom(res, a, full + 1, n)

\* np.mean(a)
np_mean(a) == FDiv(np_sum(a), Len(a))

\* np.abs(a - c)
np_abs_diff(a, c) == [k \in 1..Len(a) |-> FAbs(FSub(a[k], c))]

\* np.where that stops at the end of the first run of passing positions
RECURSIVE FirstRunFrom(_, _, _, _)
FirstRunFrom(test, tol, k, started) ==
    IF k > Len(test) THEN << >>
    ELSE IF test[k] < tol THEN <<k - 1>> \o FirstRunFrom(test, tol, k + 1, TRUE)
    ELSE IF started THEN << >>
    ELSE FirstRunFrom(test, tol, k + 1, FALSE)

np_where_first_run(test, tol) == FirstRunFrom(test, tol, 1, FALSE)

\* np.where(test <= tol)
RECURSIVE WhereLeFrom(_, _, _)
WhereLeFrom(test, tol, k) ==
    IF k > Len(test) THEN << >>
    ELSE (IF test[k] <= tol THEN <<k - 1>> ELSE << >>) \o WhereLeFrom(test, tol, k + 1)

np_where_le(test, tol) == WhereLeFrom(test, tol, 1)

\* np.where(test < tol): the ascending Python indices that pass
RECURSIVE WhereFrom(_, _, _)
WhereFrom(test, tol, k) ==
    IF k > Len(test) THEN << >>
    ELSE (IF test[k] < tol THEN <<k - 1>> ELSE << >>) \o WhereFrom(test, tol, k + 1)

np_where_lt(test, tol) == WhereFrom(test, tol, 1)

\* a[idx] for an index array idx
Take(a, idx) == [k \in 1..Len(idx) |-> At(a, idx[k])]

Range(a) == {a[k] : k \in 1..Len(a)}

SetMin(S) == CHOOSE m \in S : \A v \in S : m <= v

RECURSIVE SortSet(_)
SortSet(S) == IF S = {} THEN << >>
              ELSE <<SetMin(S)>> \o SortSet(S \ {SetMin(S)})

\* np.sort(a): sorted, equal values kept
RECURSIVE np_sort(_)
np_sort(a) ==
    IF a = << >> THEN << >>
    ELSE LET m == SetMin(Range(a))
             p == CHOOSE k \in 1..Len(a) : a[k] = m
         IN  <<m>> \o np_sort(SubSeq(a, 1, p - 1) \o SubSeq(a, p + 1, Len(a)))

\* np.unique(a): the sorted distinct values
np_unique(a) == SortSet(Range(a))

\* one iteration of the degeneracy loop, lines 107-115
DedupeBody(centres, acc, k) ==
    LET test  == np_abs_diff(centres, At(centres, k))
        degen == np_where_lt(test, Tol)
    IN  IF Len(degen) = 1 THEN np_append(acc, Take(centres, degen))
        ELSE IF Len(degen) > 1 THEN np_append(acc, <<np_mean(Take(centres, degen))>>)
        ELSE acc

\* ---------------------------------------------------------------- actions
DedupeStep ==
    /\ pc = "dedupe"
    /\ i < Len(fitted_centre)
    /\ true_peaks' = DedupeBody(fitted_centre, true_peaks, i)
    /\ i' = i + 1
    /\ UNCHANGED <<x, y, lo_lim, hi_lim, fitm, first_pass_peaks, second_pass_peaks,
                   fitted_centre, j, calls, pc, mode, orig, prev>>

UniqueStep ==
    /\ pc = "dedupe"
    /\ i = Len(fitted_centre)
    /\ true_peaks' = np_unique(true_peaks)
    /\ pc' = "done"
    /\ UNCHANGED <<x, y, lo_lim, hi_lim, fitm, first_pass_peaks, second_pass_peaks,
                   fitted_centre, i, j, calls, mode, orig, prev>>

SeqsUpTo(S, n) == UNION {[1..m -> S] : m \in 0..n}

\* ------------------------------------------------------------ the curve
\* q of sample k: an evenly spaced, strictly increasing grid
QOf(k) == 16 + 4 * k
\* intensity of sample k
YOf(k) == 1 + ((k * k) % 5)

CurveLens == {12, 20}
LoLims == {10, 24}
HiLims == {60, 100}

\* what the least-squares fit, a deterministic function of its window, returns:
\* the centre moves by k units with the window, redchi sits near red
FitModels == [k : {0, 3}, red : {30, 70}]

Ascending(a) == \A p, q \in 1..Len(a) : p < q => a[p] < a[q]

\* the index array find_peaks_cwt can return for a curve of n samples:
\* distinct sample indices, sorted ascending
FirstPassArrays(n) == {a \in SeqsUpTo(0..(n - 1), MaxPeaks) : Ascending(a)}

\* the window with its upper limit included
InWindowHiIncl(q, lo, hi) == q > lo /\ q <= hi
\* the window with its lower limit included
InWindowLoIncl(q, lo, hi) == q >= lo /\ q < hi

\* line 86: strictly inside the q window
InWindow(q, lo, hi) == q > lo /\ q < hi

\* an integer stored in a float array, and int() of a float (truncation;
\* every value of the modelled format is a whole number of units)
ToFloat(n) == RoundF(n, 1)
IntOf(f) == IF f < 0 THEN 0 - ((0 - f) \div 1) ELSE f \div 1

\* lines 97-98: the window of half-width w taken around sample c
Window(a, c, w) == Slice(a, c - w, c + w)

\* fitting(x, y, approx_centre, plot): <<fitted_centre, result.redchi>>.
\* np.max(x) at line 50 raises on an empty window, so x_range is not empty here.
fitting(x_range, y_range, approx_centre, plot) ==
    LET w == (Len(x_range) + 1) \div 2
    IN  <<RoundF(approx_centre + fitm.k * (w % 3), 1), RoundF(fitm.red + (w % 2), 1)>>

Init ==
    /\ \E n \in CurveLens :
          /\ x = [k \in 1..n |-> QOf(k - 1)]
          /\ y = [k \in 1..n |-> YOf(k - 1)]
          /\ first_pass_peaks \in FirstPassArrays(n)
    /\ lo_lim \in LoLims
    /\ hi_lim \in HiLims
    /\ fitm \in FitModels
    /\ second_pass_peaks = << >>
    /\ fitted_centre = << >>
    /\ true_peaks = << >>
    /\ i = 0
    /\ j = WidthLo
    /\ calls = << >>
    /\ pc = "filter"
    /\ mode = "first"
    /\ orig = << >>
    /\ prev = << >>

\* lines 85-87
FilterStep ==
    /\ pc = "filter"
    /\ i < Len(first_pass_peaks)
    /\ second_pass_peaks' =
          IF InWindow(At(x, At(first_pass_peaks, i)), lo_lim, hi_lim)
          THEN np_append(second_pass_peaks, <<ToFloat(At(first_pass_peaks, i))>>)
          ELSE second_pass_peaks
    /\ i' = i + 1
    /\ UNCHANGED <<x, y, lo_lim, hi_lim, fitm, first_pass_peaks, fitted_centre,
                   true_peaks, j, calls, pc, mode, orig, prev>>

\* lines 88-91
TrimStep ==
    /\ pc = "filter"
    /\ i = Len(first_pass_peaks)
    /\ second_pass_peaks' = np_trim_zeros_f(second_pass_peaks)
    /\ fitted_centre' = << >>
    /\ i' = 0
    /\ j' = WidthLo
    /\ pc' = "fit"
    /\ UNCHANGED <<x, y, lo_lim, hi_lim, fitm, first_pass_peaks, true_peaks,
                   calls, mode, orig, prev>>

\* the arguments of one call of fitting, and what it returned (<< >>: it raised)
Call(c, w, fit) == [cand |-> c, w |-> w, x_range |-> Window(x, c, w),
                    y_range |-> Window(y, c, w), approx_centre |-> At(x, c),
                    fit |-> fit]

\* lines 95-102, one (candidate, width) pair
FitStep ==
    /\ pc = "fit"
    /\ i < Len(second_pass_peaks)
    /\ LET c   == IntOf(At(second_pass_peaks, i))
           fit == fitting(Window(x, c, j), Window(y, c, j), At(x, c), 0)
       IN  /\ Window(x, c, j) # << >>
           /\ calls' = Append(calls, Call(c, j, fit))
           /\ fitted_centre' = np_append(fitted_centre, fit)
    /\ IF j + 1 < WidthHi THEN j' = j + 1 /\ i' = i
                          ELSE j' = WidthLo /\ i' = i + 1
    /\ UNCHANGED <<x, y, lo_lim, hi_lim, fitm, first_pass_peaks, second_pass_peaks,
                   true_peaks, pc, mode, orig, prev>>

\* line 100 when the window is empty: fitting raises and finder ends
FitRaise ==
    /\ pc = "fit"
    /\ i < Len(second_pass_peaks)
    /\ LET c   == IntOf(At(second_pass_peaks, i))
       IN  /\ Window(x, c, j) = << >>
           /\ calls' = Append(calls, Call(c, j, << >>))
    /\ pc' = "raised"
    /\ UNCHANGED <<x, y, lo_lim, hi_lim, fitm, first_pass_peaks, second_pass_peaks,
                   fitted_centre, true_peaks, i, j, mode, orig, prev>>

\* line 104
StartDedupe ==
    /\ pc = "fit"
    /\ i = Len(second_pass_peaks)
    /\ true_peaks' = << >>
    /\ i' = 0
    /\ pc' = "dedupe"
    /\ UNCHANGED <<x, y, lo_lim, hi_lim, fitm, first_pass_peaks, second_pass_peaks,
                   fitted_centre, j, calls, mode, orig, prev>>

Next == FilterStep \/ TrimStep \/ FitStep \/ FitRaise \/ StartDedupe
           \/ DedupeStep \/ UniqueStep

Spec == Init /\ [][Next]_vars

\* ------------------------------------- the deduplication step on its own
\* centres that chain (16, 19, 22), that sit exactly one tolerance apart (22, 26),
\* and that lie where the sum of two no longer fits the significand
DedupVals == {16, 19, 22, 26, Pow2(MantBits - 1) + 1, Pow2(MantBits - 1) + 2}

Perms(a) ==
    {[k \in 1..Len(a) |-> a[f[k]]] :
        f \in {g \in [1..Len(a) -> 1..Len(a)] : \A p, q \in 1..Len(a) : g[p] = g[q] => p = q}}

InitD ==
    /\ fitted_centre \in SeqsUpTo(DedupVals, MaxLen)
    /\ orig = fitted_centre
    /\ true_peaks = << >>
    /\ prev = << >>
    /\ i = 0
    /\ j = 0
    /\ pc = "dedupe"
    /\ mode = "first"
    /\ x = << >>
    /\ y = << >>
    /\ lo_lim = 0
    /\ hi_lim = 0
    /\ fitm = [k |-> 0, red |-> 0]
    /\ first_pass_peaks = << >>
    /\ second_pass_peaks = << >>
    /\ calls = << >>

\* the step applied to its own output
Reapply ==
    /\ pc = "done"
    /\ mode = "first"
    /\ fitted_centre' = true_peaks
    /\ prev' = true_peaks
    /\ true_peaks' = << >>
    /\ i' = 0
    /\ pc' = "dedupe"
    /\ mode' = "again"
    /\ UNCHANGED <<x, y, lo_lim, hi_lim, fitm, first_pass_peaks, second_pass_peaks,
                   j, calls, orig>>

\* the step applied to the same centres appended in another order
Permute ==
    /\ pc = "done"
    /\ mode = "first"
    /\ \E p \in Perms(orig) :
          /\ p # orig
          /\ fitted_centre' = p
    /\ prev' = true_peaks
    /\ true_peaks' = << >>
    /\ i' = 0
    /\ pc' = "dedupe"
    /\ mode' = "perm"
    /\ UNCHANGED <<x, y, lo_lim, hi_lim, fitm, first_pass_peaks, second_pass_peaks,
                   j, calls, orig>>

NextD == DedupeStep \/ UniqueStep \/ Reapply \/ Permute

SpecD == InitD /\ [][NextD]_vars

\* ------------------------------------------------------------ properties
Abs(n) == IF n < 0 THEN 0 - n ELSE n

Returned == pc \in {"fit", "dedupe", "done"}
Widths == WidthHi - WidthLo

\* C1: the sequence handed to the deduplication step holds exactly the centre
\* returned by each fit, one entry per (candidate, width), 7 per candidate,
\* and no redchi value
C1_OnlyCentres ==
    Returned =>
       /\ fitted_centre = [k \in 1..Len(calls) |-> calls[k].fit[1]]
       /\ (pc \in {"dedupe", "done"} =>
              Len(fitted_centre) = Widths * Len(second_pass_peaks))

\* C2: the deduplication step applied to its own output returns it unchanged,
\* and no two distinct values of one pass are within the tolerance
C2_Idempotent ==
    /\ (pc = "done" /\ mode = "again") => true_peaks = prev
    /\ pc = "done" => \A p, q \in 1..Len(true_peaks) :
                         p # q => ~(Abs(true_peaks[p] - true_peaks[q]) < Tol)

\* C3: the output of the deduplication step is no longer than its input and
\* strictly ascending
C3_ShorterAndAscending ==
    pc = "done" =>
       /\ Len(true_peaks) <= Len(fitted_centre)
       /\ \A p, q \in 1..Len(true_peaks) : p < q => true_peaks[p] < true_peaks[q]

C3_Witness ==
    /\ pc = "done"
    /\ Len(true_peaks) >= 2
    /\ Len(true_peaks) < Len(fitted_centre)

\* C4: every index kept for fitting, and every index fitted, has its q strictly
\* between lo_lim and hi_lim
C4_StrictlyInside ==
    /\ \A k \in 1..Len(second_pass_peaks) :
          /\ lo_lim < At(x, IntOf(second_pass_peaks[k]))
          /\ At(x, IntOf(second_pass_peaks[k])) < hi_lim
    /\ \A k \in 1..Len(calls) :
          /\ lo_lim < At(x, calls[k].cand)
          /\ At(x, calls[k].cand) < hi_lim

C4_Witness ==
    /\ calls # << >>
    /\ \E k \in 1..Len(first_pass_peaks) :
          At(x, first_pass_peaks[k]) \in {lo_lim, hi_lim}

OutOfBounds(c, w) == c - w < 0 \/ c + w > Len(x) - 1

\* C5: fitting is never called for a (candidate, width) whose window exceeds
\* the curve
C5_NoFitOutOfBounds ==
    \A k \in 1..Len(calls) : ~OutOfBounds(calls[k].cand, calls[k].w)

NoneInside ==
    \A k \in 1..Len(first_pass_peaks) :
       ~(lo_lim < At(x, first_pass_peaks[k]) /\ At(x, first_pass_peaks[k]) < hi_lim)

\* C6: with no first-pass index strictly inside the window there is no fit,
\* no error, and the PeakSet returned is empty
C6_NoCandidates ==
    NoneInside =>
       /\ calls = << >>
       /\ pc # "raised"
       /\ second_pass_peaks = << >>
       /\ (pc = "done" => true_peaks = << >>)

C6_Witness ==
    /\ NoneInside
    /\ first_pass_peaks # << >>
    /\ pc = "done"

\* the reference of C7: clusters by distance to c, the mean of a cluster of
\* several, then the ascending distinct values
Near(c, d) == Abs(d - c) < Tol
RefCluster(cs, c) == SelectSeq(cs, LAMBDA d : Near(c, d))
RefEmit(cs, c) == IF Len(RefCluster(cs, c)) = 1 THEN c ELSE np_mean(RefCluster(cs, c))
RefAscending(S) ==
    CHOOSE s \in [1..Cardinality(S) -> S] : \A p, q \in 1..Cardinality(S) : p < q => s[p] < s[q]
Reference(cs) == RefAscending({RefEmit(cs, cs[k]) : k \in 1..Len(cs)})

\* C7: the deduplication step returns what the reference returns
C7_MatchesReference ==
    pc = "done" => true_peaks = Reference(fitted_centre)

Chained(cs) ==
    \E a, b, c \in Range(cs) : Near(a, b) /\ Near(b, c) /\ ~Near(a, c)

C7_Witness ==
    /\ pc = "done"
    /\ Chained(fitted_centre)
    /\ Len(true_peaks) >= 2

InBounds(c, w) == c - w >= 0 /\ c + w <= Len(x) - 1

\* C8: a window that lies inside the curve is samples i-w .. i+w of x and of y
C8_SymmetricWindow ==
    \A k \in 1..Len(calls) :
       InBounds(calls[k].cand, calls[k].w) =>
          /\ calls[k].x_range = SubSeq(x, calls[k].cand - calls[k].w + 1,
                                          calls[k].cand + calls[k].w + 1)
          /\ calls[k].y_range = SubSeq(y, calls[k].cand - calls[k].w + 1,
                                          calls[k].cand + calls[k].w + 1)

ClusterOf(cs, k) == Take(cs, np_where_lt(np_abs_diff(cs, cs[k]), Tol))
CountIn(a, v) == Cardinality({p \in 1..Len(a) : a[p] = v})
ClusterBag(cs, k) == [v \in Range(ClusterOf(cs, k)) |-> CountIn(ClusterOf(cs, k), v)]
Clusters(cs) == {<<cs[k], ClusterBag(cs, k)>> : k \in 1..Len(cs)}
Singles(cs) == {cs[k] : k \in {p \in 1..Len(cs) : Len(ClusterOf(cs, p)) = 1}}

Inside(a) == SelectSeq(a, LAMBDA k : lo_lim < At(x, k) /\ At(x, k) < hi_lim)

\* C10: the candidates fitted are the first-pass indices strictly inside the
\* window, in discovery order, index 0 included
C10_TrimKeepsCandidates ==
    pc \in {"fit", "dedupe", "done", "raised"} =>
       [k \in 1..Len(second_pass_peaks) |-> IntOf(second_pass_peaks[k])]
          = Inside(first_pass_peaks)
====
